---- MODULE Spec2Model ----
(***************************************************************************)
(* Model of the L1 cache dedup decorator (wrap_with_cache_dedup) of        *)
(* services/L1/src/demo/cache_decorator.py.                                *)
(*                                                                         *)
(* Python values are records [t |-> type tag, v |-> text]; a str is the    *)
(* sequence of its characters (JSON punctuation kept as whole tokens), so  *)
(* that strip() and the JSON rendering are computed and not assumed.  The  *)
(* remote cache/search service is the environment: it answers every        *)
(* request either faithfully from `store` or with one of the failures an   *)
(* HTTP client can observe.                                                *)
(***************************************************************************)
EXTENDS Integers, Sequences, FiniteSets, TLC

\* ------------------------------------------------------------ bounds ----
\* Number of calls of the decorated operation in one behaviour.
MaxCalls == 2
\* Longest result list the search service returns in the model.
MaxResults == 2

\* ----------------------------------------------------- Python values ----
Str(s) == [t |-> "str", v |-> s]
IntV(s) == [t |-> "int", v |-> s]
\* A list that contains itself (l = []; l.append(l)).
CycV == [t |-> "cyclic", v |-> <<>>]
\* object(): no JSON value; v is its str().
ObjV == [t |-> "object", v |-> <<"<object>">>]
\* {1: "a", "b": 2}: keys that cannot be sorted; v is its JSON text.
MixedKeyDictV == [t |-> "mixed_key_dict", v |-> <<"{\"1\": \"a\", \"b\": 2}">>]
\* {(1, 2): 3}: a key that is no JSON key.
TupleKeyDictV == [t |-> "tuple_key_dict", v |-> <<>>]
NoneV == [t |-> "none", v |-> <<>>]

IsStr(x) == x.t = "str"

RECURSIVE LStrip(_)
LStrip(s) == IF s # <<>> /\ Head(s) = " " THEN LStrip(Tail(s)) ELSE s

RECURSIVE RStrip(_)
RStrip(s) ==
    IF s # <<>> /\ s[Len(s)] = " " THEN RStrip(SubSeq(s, 1, Len(s) - 1)) ELSE s

\* str.strip()
Strip(s) == RStrip(LStrip(s))

\* ----------------------------------------------- decorator's options ----
\* wrap_with_cache_dedup(ns=L1_NAMESPACE, max_distance=..., ttl_seconds=...)
ns == "demo"
\* Scores and max_distance are counted in tenths: 5 is the default 0.5.
max_distance == 5
ttl_seconds == 3600
\* float("inf"), the score of a candidate that carries none.
Inf == 1000000
\* The model's decorator is built without key_fn, as both demos do.
NoKeyFn == [given |-> FALSE, raises |-> FALSE, key |-> NoneV]
\* An Optional[int]: the int x, or None.
Some(x) == [some |-> TRUE, x |-> x]
None == [some |-> FALSE, x |-> 0]

\* ------------------------------------------------------------- state ----
VARIABLES
    deco,       \* the decorator: how its construction ended, and its options
    store,      \* the service's records: item_id -> cache.write body, or NoRecord
    call,       \* per thread: the frame of its call of the decorated operation
    ncalls      \* calls started so far

vars == <<deco, store, call, ncalls>>

\* wrap_with_cache_dedup has not been called yet.
NoDecorator ==
    [state |-> "none", exc |-> "none", ns |-> "", ttl_seconds |-> None,
     key_fn |-> NoKeyFn]

\* The decorator wrap_with_cache_dedup returns for these options.
Decorator(namespace, ttl, key_fn) ==
    [state |-> "built", exc |-> "none", ns |-> namespace, ttl_seconds |-> ttl,
     key_fn |-> key_fn]

\* WrapWithCacheDedup without the check of ns.
WrapWithCacheDedup_NoCheck(namespace, ttl, key_fn) == Decorator(namespace, ttl, key_fn)

\* if not ns: raise ValueError(...); otherwise the decorator is returned.
WrapWithCacheDedup(namespace, ttl, key_fn) ==
    IF namespace = ""
    THEN [state |-> "raised", exc |-> "ValueError", ns |-> namespace,
          ttl_seconds |-> ttl, key_fn |-> key_fn]
    ELSE Decorator(namespace, ttl, key_fn)

\* The decorator of deduped_chat.
ChatDecorator == Decorator(ns, Some(ttl_seconds), NoKeyFn)

\* -------------------------------------------------------- call sites ----
NoKwargs == [n \in {} |-> NoneV]

\* The argument sets the callers of the model use: a padded prompt, a value
\* that is no str (the serialization fallback), and a list that contains itself.
ArgSets ==
    { [args |-> <<Str(<<" ", "a">>)>>, kwargs |-> NoKwargs],
      [args |-> <<IntV(<<"1">>)>>, kwargs |-> NoKwargs],
      [args |-> <<CycV>>, kwargs |-> NoKwargs] }

\* ------------------------------------------------------ key resolver ----
\* kwargs.get(name)
KwGet(kwargs, name) == IF name \in DOMAIN kwargs THEN kwargs[name] ELSE NoneV

NonBlankStr(x) == IsStr(x) /\ Strip(x.v) # <<>>

RECURSIVE FirstStringArg(_)
FirstStringArg(args) ==
    IF args = <<>> THEN NoneV
    ELSE IF NonBlankStr(Head(args)) THEN Str(Strip(Head(args).v))
    ELSE FirstStringArg(Tail(args))

\* ExtractQuery that keys a call with more than one positional argument by
\* all its arguments.
ExtractQuery_WholeCall(args, kwargs, key_fn) ==
    IF Len(args) > 1 THEN NoneV ELSE FirstStringArg(args)

\* ExtractQuery that scans the positional arguments before the named ones.
ExtractQuery_PositionalFirst(args, kwargs, key_fn) ==
    IF key_fn.given /\ ~key_fn.raises /\ NonBlankStr(key_fn.key) THEN key_fn.key
    ELSE IF FirstStringArg(args) # NoneV THEN FirstStringArg(args)
    ELSE IF NonBlankStr(KwGet(kwargs, "prompt"))
        THEN Str(Strip(KwGet(kwargs, "prompt").v))
    ELSE IF NonBlankStr(KwGet(kwargs, "query"))
        THEN Str(Strip(KwGet(kwargs, "query").v))
    ELSE IF NonBlankStr(KwGet(kwargs, "text"))
        THEN Str(Strip(KwGet(kwargs, "text").v))
    ELSE NoneV

\* _extract_query: the chosen str, or NoneV (Python None).
ExtractQuery(args, kwargs, key_fn) ==
    IF key_fn.given /\ ~key_fn.raises /\ NonBlankStr(key_fn.key) THEN key_fn.key
    ELSE IF NonBlankStr(KwGet(kwargs, "prompt"))
        THEN Str(Strip(KwGet(kwargs, "prompt").v))
    ELSE IF NonBlankStr(KwGet(kwargs, "query"))
        THEN Str(Strip(KwGet(kwargs, "query").v))
    ELSE IF NonBlankStr(KwGet(kwargs, "text"))
        THEN Str(Strip(KwGet(kwargs, "text").v))
    ELSE FirstStringArg(args)

\* json.dumps of one value, with default=str: the text, or the exception it
\* raises.  A list that contains itself raises ValueError (circular
\* reference); a dict with int and str keys cannot be sorted and raises
\* TypeError under sort_keys only; a dict with a tuple key raises TypeError
\* always; an object that is no JSON value is rendered by str().
DumpValue(x, sort_keys) ==
    IF x.t = "cyclic" THEN [exc |-> "ValueError", text |-> <<>>]
    ELSE IF x.t = "tuple_key_dict" THEN [exc |-> "TypeError", text |-> <<>>]
    ELSE IF x.t = "mixed_key_dict" /\ sort_keys THEN [exc |-> "TypeError", text |-> <<>>]
    ELSE IF x.t \in {"str", "object"}
        THEN [exc |-> "none", text |-> <<"\"">> \o x.v \o <<"\"">>]
    ELSE IF x.t = "none" THEN [exc |-> "none", text |-> <<"null">>]
    ELSE [exc |-> "none", text |-> x.v]

\* The item separator: "," with separators=(",", ":"), else ", ".
ItemSep(sort_keys) == IF sort_keys THEN <<",">> ELSE <<", ">>

RECURSIVE DumpList(_, _)
DumpList(xs, sort_keys) ==
    IF xs = <<>> THEN [exc |-> "none", text |-> <<>>]
    ELSE LET h == DumpValue(Head(xs), sort_keys)
             r == DumpList(Tail(xs), sort_keys)
         IN  IF h.exc # "none" THEN h
             ELSE IF r.exc # "none" THEN r
             ELSE [exc |-> "none",
                   text |-> h.text
                            \o (IF Tail(xs) = <<>> THEN <<>> ELSE ItemSep(sort_keys))
                            \o r.text]

\* The keyword names a call of the model can carry, in sort_keys order (the
\* order in which the calls of the model pass them, too).
KwNames == <<"history", "prompt", "query", "text">>

RECURSIVE DumpKwargs(_, _, _, _)
DumpKwargs(kwargs, i, first, sort_keys) ==
    IF i > Len(KwNames) THEN [exc |-> "none", text |-> <<>>]
    ELSE IF KwNames[i] \notin DOMAIN kwargs THEN DumpKwargs(kwargs, i + 1, first, sort_keys)
    ELSE LET h == DumpValue(kwargs[KwNames[i]], sort_keys)
             r == DumpKwargs(kwargs, i + 1, FALSE, sort_keys)
         IN  IF h.exc # "none" THEN h
             ELSE IF r.exc # "none" THEN r
             ELSE [exc |-> "none",
                   text |-> (IF first THEN <<>> ELSE ItemSep(sort_keys))
                            \o <<"\"", KwNames[i], IF sort_keys THEN "\":" ELSE "\": ">>
                            \o h.text \o r.text]

\* json.dumps({"args": args, "kwargs": kwargs}, sort_keys=True,
\* separators=(",", ":"), default=str)
DumpSorted(args, kwargs) ==
    LET a == DumpList(args, TRUE)
        k == DumpKwargs(kwargs, 1, TRUE, TRUE)
    IN  IF a.exc # "none" THEN a
        ELSE IF k.exc # "none" THEN k
        ELSE [exc |-> "none",
              text |-> <<"{\"args\":[">> \o a.text \o <<"],\"kwargs\":{">> \o k.text
                       \o <<"}}">>]

\* json.dumps([args, kwargs], default=str)
DumpPair(args, kwargs) ==
    LET a == DumpList(args, FALSE)
        k == DumpKwargs(kwargs, 1, TRUE, FALSE)
    IN  IF a.exc # "none" THEN a
        ELSE IF k.exc # "none" THEN k
        ELSE [exc |-> "none", text |-> <<"[[">> \o a.text \o <<"], {">> \o k.text \o <<"}]">>]

\* _serialize_args: the sorted rendering; on TypeError, and on TypeError
\* only, the rendering as a pair.  What the second json.dumps raises, and a
\* ValueError of the first, leave the function.
SerializeArgs(args, kwargs) ==
    IF DumpSorted(args, kwargs).exc = "TypeError" THEN DumpPair(args, kwargs)
    ELSE DumpSorted(args, kwargs)

\* ----------------------------------------------- identifier deriver ----
\* hashlib.sha1(query.encode("utf-8")).hexdigest(): the digest is kept as
\* the tagged preimage, i.e. SHA-1 is taken to be free of collisions.
Sha1Hex(query) == <<"sha1">> \o query

\* _make_cache_id: f"dedup:{ns}:{digest}"
MakeCacheId(namespace, query) == <<"dedup:", namespace, ":">> \o Sha1Hex(query)

\* The cache queries the call sites of the model resolve to.
Queries == { <<"a">>, SerializeArgs(<<IntV(<<"1">>)>>, NoKwargs).text }

ItemIds == { MakeCacheId(ns, q) : q \in Queries }

\* ----------------------------------------------------- HTTP responses ----
NoObject == [n \in {} |-> NoneV]
InvalidJson == [json |-> "invalid", obj |-> NoObject]
JsonArray == [json |-> "array", obj |-> NoObject]
JsonObject(o) == [json |-> "object", obj |-> o]

ConnectionError == [kind |-> "connection_error", status |-> 0, body |-> InvalidJson]
Timeout == [kind |-> "timeout", status |-> 0, body |-> InvalidJson]
Http(status, body) == [kind |-> "http", status |-> status, body |-> body]

\* What requests raises for a response before its body is read:
\* the transport's error, or raise_for_status() on a 4xx/5xx.
TransportError(resp) ==
    IF resp.kind = "connection_error" THEN "ConnectionError"
    ELSE IF resp.kind = "timeout" THEN "Timeout"
    ELSE "none"

RaiseForStatus(resp) == IF resp.status >= 400 THEN "HTTPError" ELSE "none"

\* res.json() followed by payload.get(...): a body that is no JSON raises
\* JSONDecodeError, a JSON array has no .get and raises AttributeError.
JsonGetError(resp) ==
    IF resp.body.json = "invalid" THEN "JSONDecodeError"
    ELSE IF resp.body.json = "array" THEN "AttributeError"
    ELSE "none"

\* The failures every endpoint of the service can answer with.
FailedResponses ==
    { ConnectionError, Timeout, Http(500, InvalidJson), Http(200, InvalidJson),
      Http(200, JsonArray) }

\* ------------------------------------------------------ remote store ----
NoRecord == [absent |-> TRUE]

\* cache.get answered from the store: 404 when nothing is stored.
FaithfulGet(rec) ==
    IF rec = NoRecord THEN Http(404, JsonObject(NoObject)) ELSE Http(200, JsonObject(rec))

\* A 200 whose JSON object carries no meta dictionary.
NoMetaGet == Http(200, JsonObject([text |-> <<>>]))

GetResponses(rec) == {FaithfulGet(rec), NoMetaGet} \cup FailedResponses

\* FetchCacheRecord without the isinstance(response, str) test.
FetchCacheRecord_AnyResponse(resp) ==
    IF TransportError(resp) # "none" THEN [exc |-> TransportError(resp), val |-> NoneV]
    ELSE IF resp.status = 404 THEN [exc |-> "none", val |-> NoneV]
    ELSE IF RaiseForStatus(resp) # "none" THEN [exc |-> "HTTPError", val |-> NoneV]
    ELSE IF JsonGetError(resp) # "none" THEN [exc |-> JsonGetError(resp), val |-> NoneV]
    ELSE IF "meta" \in DOMAIN resp.body.obj /\ "response" \in DOMAIN resp.body.obj.meta
        THEN [exc |-> "none", val |-> resp.body.obj.meta.response]
    ELSE [exc |-> "none", val |-> NoneV]

\* _fetch_cache_record: [exc, val]; val is the str response or NoneV.
FetchCacheRecord(resp) ==
    IF TransportError(resp) # "none" THEN [exc |-> TransportError(resp), val |-> NoneV]
    ELSE IF resp.status = 404 THEN [exc |-> "none", val |-> NoneV]
    ELSE IF RaiseForStatus(resp) # "none" THEN [exc |-> "HTTPError", val |-> NoneV]
    ELSE IF JsonGetError(resp) # "none" THEN [exc |-> JsonGetError(resp), val |-> NoneV]
    ELSE IF "meta" \in DOMAIN resp.body.obj
            /\ "response" \in DOMAIN resp.body.obj.meta
            /\ IsStr(resp.body.obj.meta.response)
        THEN [exc |-> "none", val |-> resp.body.obj.meta.response]
    ELSE [exc |-> "none", val |-> NoneV]

\* How the answer to a cache.get relates to the store: it made the client
\* raise, it is the stored record (or the 404 of none), or it is neither.
GetClass(resp, rec) ==
    IF FetchCacheRecord(resp).exc # "none" THEN "get_failed"
    ELSE IF resp = FaithfulGet(rec) THEN "get_faithful"
    ELSE "get_garbled"

\* A record a lookup can return as a hit.
HasStringResponse(rec) == rec # NoRecord /\ IsStr(rec.meta.response)

\* --------------------------------------------------- approximate path ----
Scores == {3, 5, 6}

Number(x) == [num |-> TRUE, x |-> x]
NotANumber == [num |-> FALSE, x |-> 0]

\* The candidates search.vector may put first: well-formed ones, ones without
\* a score, one without an item_id, one whose score is no number.
Entries ==
    { [item_id |-> i, score |-> Number(s)] : i \in ItemIds, s \in Scores }
    \cup { [item_id |-> i] : i \in ItemIds }
    \cup { [score |-> Number(3)] }
    \cup { [item_id |-> MakeCacheId(ns, <<"a">>), score |-> NotANumber] }

\* The candidates that follow the first one.
TailEntries == { [item_id |-> MakeCacheId(ns, <<"a">>), score |-> Number(3)] }

TailLists == UNION { [1..n -> TailEntries] : n \in 0..(MaxResults - 1) }

\* The score the service ranks a candidate by; one it cannot rank comes last.
Rank(e) == IF "score" \in DOMAIN e /\ e.score.num THEN e.score.x ELSE Inf

\* The service returns the candidates best (lowest score) first.
BestFirst(rs) == \A i \in 1..(Len(rs) - 1) : Rank(rs[i]) <= Rank(rs[i + 1])

ResultLists ==
    {<<>>} \cup { rs \in { <<e>> \o tl : e \in Entries, tl \in TailLists } : BestFirst(rs) }

NotFound == Http(404, JsonObject(NoObject))

SearchResponses ==
    { Http(200, JsonObject([results |-> rs])) : rs \in ResultLists }
    \cup { Http(200, JsonObject(NoObject)), NotFound } \cup FailedResponses

\* sess.post(search.vector); res.raise_for_status();
\* results = res.json().get("results") or []
SearchVector(resp) ==
    IF TransportError(resp) # "none" THEN [exc |-> TransportError(resp), results |-> <<>>]
    ELSE IF RaiseForStatus(resp) # "none" THEN [exc |-> "HTTPError", results |-> <<>>]
    ELSE IF JsonGetError(resp) # "none" THEN [exc |-> JsonGetError(resp), results |-> <<>>]
    ELSE IF "results" \in DOMAIN resp.body.obj
        THEN [exc |-> "none", results |-> resp.body.obj.results]
    ELSE [exc |-> "none", results |-> <<>>]

\* score = float(best.get("score", float("inf")))
BestScore(best) ==
    IF "score" \notin DOMAIN best THEN [exc |-> "none", x |-> Inf]
    ELSE IF ~best.score.num THEN [exc |-> "ValueError", x |-> 0]
    ELSE [exc |-> "none", x |-> best.score.x]

\* Accepts with the threshold taken as exclusive.
Accepts_Exclusive(score) == score < max_distance

\* if score <= max_distance
Accepts(score) == score <= max_distance

\* ------------------------------------------------ wrapped operation ----
\* What fn does in one invocation: a str, a value that is no str, or an error.
FnOutcomes ==
    { [raises |-> FALSE, value |-> Str(<<"x">>)],
      [raises |-> FALSE, value |-> Str(<<"y">>)],
      [raises |-> FALSE, value |-> IntV(<<"7">>)],
      [raises |-> TRUE, value |-> NoneV] }

NoArgs == [args |-> <<>>, kwargs |-> NoKwargs, called |-> FALSE]

\* fn(*args, **kwargs)
FnCallArgs(args, kwargs) == [args |-> args, kwargs |-> kwargs, called |-> TRUE]

\* ----------------------------------------------------- write-through ----
\* WriteBody with the query stored in the place of the response.
WriteBody_QueryAsResponse(cache_query, serialized_args, result) ==
    LET cache_id == MakeCacheId(ns, cache_query)
        body == [ns |-> ns, item_id |-> cache_id, text |-> cache_query,
                 meta |-> [response |-> Str(cache_query), query |-> cache_query,
                           cache_id |-> cache_id]]
    IN  IF deco.ttl_seconds # None THEN body @@ [ttl_s |-> deco.ttl_seconds.x]
        ELSE body

\* WriteBody that files every record under the identifier of one fixed query.
WriteBody_FixedId(cache_query, serialized_args, result) ==
    LET cache_id == MakeCacheId(ns, <<"a">>)
        body == [ns |-> ns, item_id |-> cache_id, text |-> cache_query,
                 meta |-> [response |-> result, query |-> cache_query,
                           cache_id |-> cache_id]]
    IN  IF deco.ttl_seconds # None THEN body @@ [ttl_s |-> deco.ttl_seconds.x]
        ELSE body

\* WriteBody that sends a ttl_s whether or not ttl_seconds is None.
WriteBody_AlwaysTtl(cache_query, serialized_args, result) ==
    LET cache_id == MakeCacheId(ns, cache_query)
    IN  [ns |-> ns, item_id |-> cache_id, text |-> cache_query,
         meta |-> [response |-> result, query |-> cache_query, cache_id |-> cache_id],
         ttl_s |-> deco.ttl_seconds.x]

\* body of the cache.write request
WriteBody(cache_query, serialized_args, result) ==
    LET cache_id == MakeCacheId(ns, cache_query)
        meta == [response |-> result, query |-> cache_query, cache_id |-> cache_id]
        meta2 == IF serialized_args # <<>> /\ cache_query # serialized_args
                 THEN meta @@ [serialized_args |-> serialized_args]
                 ELSE meta
        body == [ns |-> ns, item_id |-> cache_id, text |-> cache_query,
                 meta |-> meta2]
    IN  IF deco.ttl_seconds # None THEN body @@ [ttl_s |-> deco.ttl_seconds.x]
        ELSE body

\* The answers to a cache.write and whether the service stored the record:
\* a timeout or an unreadable answer can follow a write that took place.
WriteAnswers ==
    { [resp |-> Http(200, JsonObject([vectorized |-> TRUE])), stored |-> TRUE],
      [resp |-> ConnectionError, stored |-> FALSE],
      [resp |-> Timeout, stored |-> FALSE],
      [resp |-> Timeout, stored |-> TRUE],
      [resp |-> Http(500, InvalidJson), stored |-> FALSE],
      [resp |-> NotFound, stored |-> FALSE],
      [resp |-> Http(200, InvalidJson), stored |-> TRUE],
      [resp |-> Http(200, JsonArray), stored |-> TRUE] }

\* sess.post(cache.write); write_res.raise_for_status(); write_res.json();
\* payload.get(...): the exception raised, or "none"
WriteThrough(resp) ==
    IF TransportError(resp) # "none" THEN TransportError(resp)
    ELSE IF RaiseForStatus(resp) # "none" THEN "HTTPError"
    ELSE JsonGetError(resp)

\* The service keeps the record of a write under its item_id.
ApplyWrite(st, body) == [st EXCEPT ![body.item_id] = body]

\* ------------------------------------------------------------ frames ----
Threads == {"t1", "t2"}

\* A frame: the wrapper's locals (args, kwargs, cache_query, serialized_args,
\* best_id, score, result), how the call ended (ret, exc), and the record of
\* what the call did: seq (its rank among the calls), hit, lookup_failed,
\* fn_calls, fn_args, n_write, others (the result list of its search held
\* more than one candidate), last (the class of the answer to its latest
\* request) and health (how the service answered its requests so far: "up"
\* when all were answered properly, "down" when all failed, else "mixed").
IdleCall ==
    [pc |-> "idle", seq |-> 0, args |-> <<>>, kwargs |-> NoKwargs,
     cache_query |-> <<>>, serialized_args |-> <<>>, best_id |-> <<>>, score |-> 0,
     result |-> NoneV, ret |-> NoneV, exc |-> "none", hit |-> "none",
     lookup_failed |-> FALSE, fn_calls |-> 0, fn_args |-> NoArgs, n_write |-> 0,
     others |-> FALSE, last |-> "none", health |-> "none"]

Ended == {"returned", "raised"}
AtRest == {"idle"} \cup Ended

Init ==
    /\ deco = ChatDecorator
    /\ store = [i \in ItemIds |-> NoRecord]
    /\ call = [t \in Threads |-> IdleCall]
    /\ ncalls = 0

\* ------------------------------------------------- wrapper, by stage ----
\* cache_query = _extract_query(...); if not cache_query: serialized_args =
\* _serialize_args(...); cache_query = serialized_args
ResolveQuery(args, kwargs, key_fn) ==
    LET q == ExtractQuery(args, kwargs, key_fn)
        ser == SerializeArgs(args, kwargs)
    IN  IF q # NoneV /\ q.v # <<>>
            THEN [exc |-> "none", cache_query |-> q.v, serialized_args |-> <<>>]
        ELSE IF ser.exc # "none"
            THEN [exc |-> ser.exc, cache_query |-> <<>>, serialized_args |-> <<>>]
        ELSE [exc |-> "none", cache_query |-> ser.text, serialized_args |-> ser.text]

\* LookupFailed without the except clause: the lookup's error leaves the wrapper.
LookupFailed_Propagates(c, exc) ==
    [c EXCEPT !.pc = "raised", !.exc = exc, !.lookup_failed = TRUE]

\* except Exception as err: print("[cache lookup failed]"), then the miss path
LookupFailed(c, exc) == [c EXCEPT !.pc = "miss", !.lookup_failed = TRUE]

\* cache_id = _make_cache_id(ns, cache_query), the identifier of the exact get
LookupId(c) == MakeCacheId(ns, c.cache_query)

\* ExactPath without the early return: the search follows an exact hit too.
ExactPath_NoReturn(c, direct) ==
    IF direct.exc # "none" THEN [c EXCEPT !.pc = "miss", !.lookup_failed = TRUE]
    ELSE [c EXCEPT !.pc = "lookup_search"]

\* ExactPath that goes on to the search when the exact get has failed.
ExactPath_SearchAfterFailure(c, direct) ==
    IF direct.exc # "none" THEN [c EXCEPT !.pc = "lookup_search", !.lookup_failed = TRUE]
    ELSE IF direct.val # NoneV
        THEN [c EXCEPT !.pc = "returned", !.ret = direct.val, !.hit = "exact"]
    ELSE [c EXCEPT !.pc = "lookup_search"]

\* direct = _fetch_cache_record(...); if direct is not None: return direct
ExactPath(c, direct) ==
    IF direct.exc # "none" THEN LookupFailed(c, direct.exc)
    ELSE IF direct.val # NoneV
        THEN [c EXCEPT !.pc = "returned", !.ret = direct.val, !.hit = "exact"]
    ELSE [c EXCEPT !.pc = "lookup_search"]

\* ApproxPath that takes the last candidate of the result list.
ApproxPath_LastCandidate(c, resp) ==
    LET s == SearchVector(resp)
    IN  IF s.exc # "none" THEN LookupFailed([c EXCEPT !.last = "search_failed"], s.exc)
        ELSE IF s.results = <<>> THEN [c EXCEPT !.pc = "miss", !.last = "search_empty"]
        ELSE LET best == s.results[Len(s.results)]
                 sc == BestScore(best)
                 c1 == [c EXCEPT !.others = Len(s.results) > 1]
             IN  IF sc.exc # "none"
                     THEN LookupFailed([c EXCEPT !.last = "search_malformed"], sc.exc)
                 ELSE IF ~Accepts(sc.x)
                     THEN [c1 EXCEPT !.pc = "miss", !.score = sc.x,
                                     !.last = "search_rejected"]
                 ELSE IF "item_id" \notin DOMAIN best
                     THEN LookupFailed([c EXCEPT !.last = "search_malformed"],
                                       "KeyError")
                 ELSE [c1 EXCEPT !.pc = "lookup_candidate", !.score = sc.x,
                                 !.best_id = best.item_id, !.last = "search_accepted"]

\* the search request and the inspection of results[0]
ApproxPath(c, resp) ==
    LET s == SearchVector(resp)
    IN  IF s.exc # "none" THEN LookupFailed([c EXCEPT !.last = "search_failed"], s.exc)
        ELSE IF s.results = <<>> THEN [c EXCEPT !.pc = "miss", !.last = "search_empty"]
        ELSE LET best == s.results[1]
                 sc == BestScore(best)
                 c1 == [c EXCEPT !.others = Len(s.results) > 1]
             IN  IF sc.exc # "none"
                     THEN LookupFailed([c EXCEPT !.last = "search_malformed"], sc.exc)
                 ELSE IF ~Accepts(sc.x)
                     THEN [c1 EXCEPT !.pc = "miss", !.score = sc.x,
                                     !.last = "search_rejected"]
                 ELSE IF "item_id" \notin DOMAIN best
                     THEN LookupFailed([c EXCEPT !.last = "search_malformed"],
                                       "KeyError")
                 ELSE [c1 EXCEPT !.pc = "lookup_candidate", !.score = sc.x,
                                 !.best_id = best.item_id, !.last = "search_accepted"]

\* CandidatePath that stores an approximate hit under the query's own
\* identifier before it returns it.
CandidatePath_Promote(c, doc) ==
    IF doc.exc # "none"
        THEN LookupFailed([c EXCEPT !.best_id = <<>>, !.score = 0, !.others = FALSE],
                          doc.exc)
    ELSE IF doc.val # NoneV
        THEN [c EXCEPT !.pc = "write", !.result = doc.val, !.hit = "approx",
                       !.others = FALSE]
    ELSE [c EXCEPT !.pc = "miss", !.best_id = <<>>, !.score = 0]

\* doc = _fetch_cache_record(..., best["item_id"]); if doc is not None: return doc
\* The candidate (best, score) is dead once its fetch has found nothing and
\* is not kept.
CandidatePath(c, doc) ==
    IF doc.exc # "none"
        THEN LookupFailed([c EXCEPT !.best_id = <<>>, !.score = 0, !.others = FALSE],
                          doc.exc)
    ELSE IF doc.val # NoneV
        THEN [c EXCEPT !.pc = "returned", !.ret = doc.val, !.hit = "approx",
                       !.others = FALSE]
    ELSE [c EXCEPT !.pc = "miss", !.best_id = <<>>, !.score = 0]

\* MissPath that hands fn the resolved query instead of the call's arguments.
MissPath_QueryAsArgs(c, outcome) ==
    LET c1 == [c EXCEPT !.fn_calls = @ + 1,
                        !.fn_args = FnCallArgs(<<Str(c.cache_query)>>, NoKwargs),
                        !.best_id = <<>>, !.score = 0, !.others = FALSE,
                        !.last = "fn"]
    IN  IF outcome.raises THEN [c1 EXCEPT !.pc = "raised", !.exc = "OperationFailure"]
        ELSE [c1 EXCEPT !.pc = "write", !.result = outcome.value]

\* MissPath that catches fn's error and goes on to the write with no result.
MissPath_SwallowsError(c, outcome) ==
    [c EXCEPT !.fn_calls = @ + 1, !.fn_args = FnCallArgs(c.args, c.kwargs),
              !.best_id = <<>>, !.score = 0, !.others = FALSE, !.last = "fn",
              !.pc = "write", !.result = outcome.value]

\* MissPath that skips the write once the lookup has failed.
MissPath_NoWriteAfterFailure(c, outcome) ==
    LET c1 == [c EXCEPT !.fn_calls = @ + 1, !.fn_args = FnCallArgs(c.args, c.kwargs),
                        !.best_id = <<>>, !.score = 0, !.others = FALSE,
                        !.last = "fn"]
    IN  IF outcome.raises THEN [c1 EXCEPT !.pc = "raised", !.exc = "OperationFailure"]
        ELSE IF c.lookup_failed
            THEN [c1 EXCEPT !.pc = "returned", !.result = outcome.value,
                            !.ret = outcome.value]
        ELSE [c1 EXCEPT !.pc = "write", !.result = outcome.value]

\* result = fn(*args, **kwargs): an error of fn leaves the wrapper.  The
\* lookup's locals (best, score) are dead from here on and are not kept.
MissPath(c, outcome) ==
    LET c1 == [c EXCEPT !.fn_calls = @ + 1, !.fn_args = FnCallArgs(c.args, c.kwargs),
                        !.best_id = <<>>, !.score = 0, !.others = FALSE,
                        !.last = "fn"]
    IN  IF outcome.raises THEN [c1 EXCEPT !.pc = "raised", !.exc = "OperationFailure"]
        ELSE [c1 EXCEPT !.pc = "write", !.result = outcome.value]

\* WritePath without the except clause: the write's error leaves the wrapper.
WritePath_Propagates(c, resp) ==
    IF WriteThrough(resp) = "none"
    THEN [c EXCEPT !.pc = "returned", !.ret = c.result, !.last = "write_ok"]
    ELSE [c EXCEPT !.pc = "raised", !.exc = WriteThrough(resp), !.last = "write_failed"]

\* the write's try/except, then return result
WritePath(c, resp) ==
    [c EXCEPT !.pc = "returned", !.ret = c.result,
              !.last = IF WriteThrough(resp) = "none" THEN "write_ok"
                       ELSE "write_failed"]

\* ----------------------------------------------------------- actions ----
Becomes(t, c) == call' = [call EXCEPT ![t] = c]

\* The frame after one more request, answered properly (ok) or not.
Answered(c, class, ok) ==
    [c EXCEPT !.last = class,
              !.health = IF @ = "none" THEN (IF ok THEN "up" ELSE "down")
                         ELSE IF (@ = "up" /\ ok) \/ (@ = "down" /\ ~ok) THEN @
                         ELSE "mixed"]

\* wrapper(*args, **kwargs) is entered: the query is resolved.
\* The frame of a call with the argument set a, after lines 52-56.
Enter(a, key_fn, rank) ==
    LET r == ResolveQuery(a.args, a.kwargs, key_fn)
        c == [IdleCall EXCEPT !.args = a.args, !.kwargs = a.kwargs, !.seq = rank]
    IN  IF r.exc # "none"
        THEN [c EXCEPT !.pc = "raised", !.exc = r.exc]
        ELSE [c EXCEPT !.pc = "lookup_exact", !.cache_query = r.cache_query,
                       !.serialized_args = r.serialized_args]

Call(t) ==
    /\ deco.state = "built"
    /\ call[t].pc \in AtRest
    /\ ncalls < MaxCalls
    /\ ncalls' = ncalls + 1
    /\ \E a \in ArgSets : Becomes(t, Enter(a, deco.key_fn, ncalls + 1))
    /\ UNCHANGED <<deco, store>>

\* The exact path: cache.get under the identifier of the query.
ExactGet(t) ==
    /\ call[t].pc = "lookup_exact"
    /\ \E resp \in GetResponses(store[LookupId(call[t])]) :
        LET class == GetClass(resp, store[LookupId(call[t])])
        IN  Becomes(t, ExactPath(Answered(call[t], class, class = "get_faithful"),
                                 FetchCacheRecord(resp)))
    /\ UNCHANGED <<deco, store, ncalls>>

\* The approximate path: search.vector and the inspection of the best candidate.
Search(t) ==
    /\ call[t].pc = "lookup_search"
    /\ \E resp \in SearchResponses :
        LET c == ApproxPath(call[t], resp)
        IN  Becomes(t, Answered(c, c.last,
                                c.last \notin {"search_failed", "search_malformed"}))
    /\ UNCHANGED <<deco, store, ncalls>>

\* cache.get under the accepted candidate's item_id.
CandidateGet(t) ==
    /\ call[t].pc = "lookup_candidate"
    /\ \E resp \in GetResponses(store[call[t].best_id]) :
        LET class == GetClass(resp, store[call[t].best_id])
        IN  Becomes(t, CandidatePath(Answered(call[t], class, class = "get_faithful"),
                                     FetchCacheRecord(resp)))
    /\ UNCHANGED <<deco, store, ncalls>>

\* The miss path: the wrapped function runs.
CallFn(t) ==
    /\ call[t].pc = "miss"
    /\ \E outcome \in FnOutcomes : Becomes(t, MissPath(call[t], outcome))
    /\ UNCHANGED <<deco, store, ncalls>>

\* Write that leaves a record already stored under the identifier alone.
Write_IfAbsent(t) ==
    /\ call[t].pc = "write"
    /\ \E w \in WriteAnswers :
        /\ store' = IF w.stored /\ store[MakeCacheId(ns, call[t].cache_query)] = NoRecord
                    THEN ApplyWrite(store, WriteBody(call[t].cache_query,
                                                     call[t].serialized_args,
                                                     call[t].result))
                    ELSE store
        /\ LET c == WritePath([call[t] EXCEPT !.n_write = @ + 1], w.resp)
           IN  Becomes(t, Answered(c, c.last, c.last = "write_ok"))
    /\ UNCHANGED <<deco, ncalls>>

\* cache.write of the result, and the return of the result.
Write(t) ==
    /\ call[t].pc = "write"
    /\ \E w \in WriteAnswers :
        /\ store' = IF w.stored
                    THEN ApplyWrite(store, WriteBody(call[t].cache_query,
                                                     call[t].serialized_args,
                                                     call[t].result))
                    ELSE store
        /\ LET c == WritePath([call[t] EXCEPT !.n_write = @ + 1], w.resp)
           IN  Becomes(t, Answered(c, c.last, c.last = "write_ok"))
    /\ UNCHANGED <<deco, ncalls>>

Step(t) ==
    \/ Call(t)
    \/ ExactGet(t)
    \/ Search(t)
    \/ CandidateGet(t)
    \/ CallFn(t)
    \/ Write(t)

Next == \E t \in Threads : Step(t)

Spec == Init /\ [][Next]_vars

\* Calls that do not overlap: a call starts only while every other thread
\* is at rest.
SeqCall(t) == (\A u \in Threads \ {t} : call[u].pc \in AtRest) /\ Call(t)

NextSeq ==
    \E t \in Threads :
        \/ SeqCall(t)
        \/ ExactGet(t)
        \/ Search(t)
        \/ CandidateGet(t)
        \/ CallFn(t)
        \/ Write(t)

SpecSeq == Init /\ [][NextSeq]_vars

\* The conversation so far, as main passes it: empty, or one exchange.
Histories ==
    { [t |-> "list", v |-> <<"[]">>],
      [t |-> "list", v |-> <<"[{\"role\": \"user\"}, {\"role\": \"assistant\"}]">>] }

\* deduped_chat(prompt, history), prompt stripped and not empty.
ChatArgSets ==
    { [args |-> <<Str(<<"a">>), h>>, kwargs |-> NoKwargs] : h \in Histories }

\* reply = deduped_chat(prompt, history), one call at a time.
ChatCall(t) ==
    /\ deco.state = "built"
    /\ \A u \in Threads : call[u].pc \in AtRest
    /\ ncalls < MaxCalls
    /\ ncalls' = ncalls + 1
    /\ \E a \in ChatArgSets : Becomes(t, Enter(a, deco.key_fn, ncalls + 1))
    /\ UNCHANGED <<deco, store>>

NextChat ==
    \E t \in Threads :
        \/ ChatCall(t)
        \/ ExactGet(t)
        \/ Search(t)
        \/ CandidateGet(t)
        \/ CallFn(t)
        \/ Write(t)

SpecChat == Init /\ [][NextChat]_vars

\* The service outlives the process: a decorator can be built while the
\* service holds what an earlier run stored, here the record of query "a".
InitWarm ==
    /\ deco = ChatDecorator
    /\ store = [i \in ItemIds |->
                  IF i = MakeCacheId(ns, <<"a">>)
                  THEN WriteBody(<<"a">>, <<>>, Str(<<"x">>))
                  ELSE NoRecord]
    /\ call = [t \in Threads |-> IdleCall]
    /\ ncalls = 0

SpecWarm == InitWarm /\ [][NextSeq]_vars

\* The namespaces and expiries a decorator is built with in the model.
NsInputs == {"", ns}
TtlInputs == {Some(ttl_seconds), None}

\* wrap_with_cache_dedup(ns=..., ttl_seconds=...) is called.
Construct ==
    /\ deco.state = "none"
    /\ \E n \in NsInputs, ttl \in TtlInputs : deco' = WrapWithCacheDedup(n, ttl, NoKeyFn)
    /\ UNCHANGED <<store, call, ncalls>>

InitDeco ==
    /\ deco = NoDecorator
    /\ store = [i \in ItemIds |-> NoRecord]
    /\ call = [t \in Threads |-> IdleCall]
    /\ ncalls = 0

\* A decorator is built, and the operation it decorates is called, one call
\* at a time.
NextDeco ==
    \/ Construct
    \/ \E t \in Threads :
        \/ SeqCall(t)
        \/ ExactGet(t)
        \/ Search(t)
        \/ CandidateGet(t)
        \/ CallFn(t)
        \/ Write(t)

SpecDeco == InitDeco /\ [][NextDeco]_vars

\* ----------------------------------------- key resolution, on its own ----
\* Longest positional argument list of the calls below.
MaxArgs == 2

\* What a key function does when invoked: it returns a key, a padded key, a
\* blank or an empty str, a value that is no str, or it raises.
KeyFns ==
    { NoKeyFn,
      [given |-> TRUE, raises |-> FALSE, key |-> Str(<<"k">>)],
      [given |-> TRUE, raises |-> FALSE, key |-> Str(<<" ", "k">>)],
      [given |-> TRUE, raises |-> FALSE, key |-> Str(<<" ">>)],
      [given |-> TRUE, raises |-> FALSE, key |-> Str(<<>>)],
      [given |-> TRUE, raises |-> FALSE, key |-> IntV(<<"7">>)],
      [given |-> TRUE, raises |-> TRUE, key |-> NoneV] }

PosValues ==
    { Str(<<" ", "a">>), Str(<<"b">>), Str(<<" ">>), IntV(<<"1">>), ObjV,
      MixedKeyDictV, TupleKeyDictV, CycV }

\* The named arguments: each conventional name absent, a str, or a value
\* that is not usable.
KwSets ==
    { [n \in names |-> CASE n = "prompt" -> p [] n = "query" -> q [] n = "text" -> x] :
        names \in SUBSET {"prompt", "query", "text"},
        p \in {Str(<<" ", "p", " ">>), Str(<<" ">>)},
        q \in {Str(<<"q">>), IntV(<<"2">>)},
        x \in {Str(<<"t", " ">>)} }

KeyArgSets ==
    { [args |-> a, kwargs |-> k] :
        a \in UNION { [1..n -> PosValues] : n \in 0..MaxArgs }, k \in KwSets }

InitKey ==
    /\ deco \in { Decorator(ns, Some(ttl_seconds), k) : k \in KeyFns }
    /\ store = [i \in ItemIds |-> NoRecord]
    /\ call = [t \in Threads |-> IdleCall]
    /\ ncalls = 0

\* wrapper is entered with one of KeyArgSets and resolves its query
\* (lines 52-56); the call is not followed further.
KeyCall(t) ==
    /\ \A u \in Threads : call[u].pc = "idle"
    /\ ncalls' = ncalls + 1
    /\ \E a \in KeyArgSets : Becomes(t, Enter(a, deco.key_fn, ncalls + 1))
    /\ UNCHANGED <<deco, store>>

NextKey == \E t \in Threads : KeyCall(t)

SpecKey == InitKey /\ [][NextKey]_vars

\* ------------------------------------------------------------ claims ----
\* The values fn can return.
FnValues == { o.value : o \in { x \in FnOutcomes : ~x.raises } }

\* C1: in every call, a hit (exact or approximate) returns the cached string
\* of the record that was fetched and never invokes fn; a miss invokes fn
\* exactly once, with the call's own positional and named arguments, and
\* returns exactly fn's result; fn is never invoked twice in one call.
C1_HitOrSingleInvocation ==
    [][\A t \in Threads :
        LET c == call[t]
            d == call'[t]
        IN  /\ d.fn_calls <= 1
            /\ d.hit # "none" =>
                  d.pc = "returned" /\ d.fn_calls = 0 /\ ~d.fn_args.called /\ IsStr(d.ret)
            /\ (c.hit = "none" /\ d.hit = "exact") =>
                  d.ret = store[MakeCacheId(ns, c.cache_query)].meta.response
            /\ (c.hit = "none" /\ d.hit = "approx") =>
                  d.ret = store[c.best_id].meta.response
            /\ (d.pc = "returned" /\ d.hit = "none") =>
                  /\ d.fn_calls = 1
                  /\ d.fn_args = [args |-> d.args, kwargs |-> d.kwargs, called |-> TRUE]
                  /\ d.ret = d.result
                  /\ d.result \in FnValues
            /\ d.pc = "write" => d.fn_calls = 1
            /\ d.pc \in {"lookup_exact", "lookup_search", "lookup_candidate", "miss"}
                  => d.fn_calls = 0]_vars

\* Witness of C1: a call that missed and returned fn's string next to a call
\* that was served an approximate hit.
C1_Witness ==
    \E t, u \in Threads :
        /\ call[t].pc = "returned" /\ call[t].hit = "none"
        /\ call[t].fn_calls = 1 /\ call[t].ret = Str(<<"x">>)
        /\ call[u].pc = "returned" /\ call[u].hit = "approx" /\ call[u].fn_calls = 0

\* C2: once a lookup request (the exact cache.get, search.vector or the
\* candidate's cache.get) has made the client raise -- a connection error, a
\* timeout, a 4xx/5xx other than the get's 404, a body that is no JSON object,
\* a candidate that cannot be read -- the call is on the miss path: nothing of
\* the cache layer is raised, fn runs once and the call ends as fn ends.
C2_FailOpenLookup ==
    \A t \in Threads :
        LET c == call[t]
        IN  /\ c.last \in {"get_failed", "search_failed", "search_malformed"}
                  => c.pc = "miss" /\ c.lookup_failed
            /\ c.lookup_failed =>
                  /\ c.pc \in {"miss", "write", "returned", "raised"}
                  /\ c.hit = "none"
                  /\ c.pc \in Ended => c.fn_calls = 1
                  /\ c.pc = "returned" => c.ret = c.result /\ c.exc = "none"
                  /\ c.pc = "raised" => c.exc = "OperationFailure"

\* Witness of C2: a call whose lookup failed has returned fn's result.
C2_Witness ==
    \E t \in Threads :
        /\ call[t].lookup_failed /\ call[t].pc = "returned"
        /\ call[t].fn_calls = 1 /\ call[t].ret = Str(<<"y">>)

\* C3: a cache.write that fails (connection error, timeout, rejected status,
\* unreadable answer) is absorbed: the call returns exactly fn's result and
\* raises nothing.
C3_FailOpenWrite ==
    \A t \in Threads :
        LET c == call[t]
        IN  /\ c.last = "write_failed" =>
                  /\ c.pc = "returned" /\ c.exc = "none"
                  /\ c.ret = c.result /\ c.result \in FnValues
                  /\ c.fn_calls = 1 /\ c.n_write = 1
            /\ c.n_write = 1 => c.pc = "returned"

\* Witness of C3: the write failed, nothing was stored, fn's string is returned.
C3_Witness ==
    \E t \in Threads :
        /\ call[t].last = "write_failed" /\ call[t].pc = "returned"
        /\ call[t].ret = Str(<<"x">>)
        /\ store[MakeCacheId(ns, call[t].cache_query)] = NoRecord

\* C4: when the exact cache.get is answered with the record stored under
\* derive(ns, query) and that record carries a str meta.response, the call
\* returns that response in the same step: it never reaches the search stage,
\* so no search.vector request is issued, whatever that endpoint would answer.
C4_ExactHitShortCircuits ==
    [][\A t \in Threads :
        LET c == call[t]
            d == call'[t]
            rec == store[MakeCacheId(ns, c.cache_query)]
        IN  /\ (c.pc = "lookup_exact" /\ d.pc # "lookup_exact"
                /\ d.last = "get_faithful" /\ HasStringResponse(rec)) =>
                  /\ d.pc = "returned" /\ d.hit = "exact"
                  /\ d.ret = rec.meta.response
                  /\ d.fn_calls = 0 /\ d.n_write = 0
            /\ d.hit = "exact" => d.last = "get_faithful" /\ d.health = "up"
            /\ d.pc = "lookup_search" => c.pc \in {"lookup_exact", "lookup_search"}]_vars

\* Witness of C4: an exact hit.
C4_Witness ==
    \E t \in Threads :
        /\ call[t].pc = "returned" /\ call[t].hit = "exact"
        /\ call[t].ret = Str(<<"x">>) /\ call[t].fn_calls = 0

\* C5: when search.vector returns a non-empty result set whose first candidate
\* can be read, the candidate is fetched if and only if its score is <=
\* max_distance (a score equal to max_distance is accepted, a greater one is
\* a miss), and the call is an approximate hit if and only if the record
\* fetched under the candidate's item_id carries a str meta.response, which
\* is then returned.
C5_ApproximateHitDecision ==
    [][\A t \in Threads :
        LET c == call[t]
            d == call'[t]
        IN  /\ (c.pc = "lookup_search"
                /\ d.last \in {"search_rejected", "search_accepted"}) =>
                  /\ d.pc = "lookup_candidate" <=> d.score <= max_distance
                  /\ d.pc # "lookup_candidate" => d.pc = "miss" /\ d.hit = "none"
            /\ (c.pc = "lookup_candidate" /\ d.pc # "lookup_candidate"
                /\ d.last = "get_faithful") =>
                  /\ d.hit = "approx" <=> HasStringResponse(store[c.best_id])
                  /\ d.hit = "approx" =>
                        d.pc = "returned" /\ d.ret = store[c.best_id].meta.response
                  /\ d.hit # "approx" => d.pc = "miss"
            /\ d.hit = "approx" =>
                  d.score <= max_distance /\ d.last = "get_faithful"
            /\ d.pc = "lookup_candidate" => d.score <= max_distance]_vars

\* Witness of C5: an approximate hit on a candidate whose score equals
\* max_distance, found under another query's identifier.
C5_Witness ==
    \E t \in Threads :
        /\ call[t].hit = "approx" /\ call[t].score = max_distance
        /\ call[t].best_id # MakeCacheId(ns, call[t].cache_query)
        /\ call[t].ret = Str(<<"x">>)

\* C6 (calls that do not overlap): a call that finds the service up and
\* misses invokes fn once and writes; while it is the latest call, the record
\* under dedup:<ns>:<sha1 of query> carries its result; and the next call,
\* with the same query and the service up, is an exact hit that returns the
\* same string without invoking fn.
C6_MissThenExactHit ==
    \A u \in Threads :
        LET f == call[u]
            id == <<"dedup:", "demo", ":", "sha1">> \o f.cache_query
        IN  (f.pc = "returned" /\ f.hit = "none" /\ f.health = "up" /\ IsStr(f.ret)) =>
              /\ f.fn_calls = 1 /\ f.n_write = 1
              /\ f.seq = ncalls =>
                    /\ store[id] # NoRecord
                    /\ store[id].item_id = id
                    /\ store[id].meta.response = f.ret
              /\ \A t \in Threads \ {u} :
                    LET s == call[t]
                    IN  (s.seq = f.seq + 1 /\ s.cache_query = f.cache_query
                         /\ s.health = "up") =>
                            /\ s.pc = "returned" /\ s.hit = "exact"
                            /\ s.fn_calls = 0 /\ s.n_write = 0
                            /\ s.ret = f.ret

\* Witness of C6: the second of two calls with one query is an exact hit on
\* what the first, a miss, returned.
C6_Witness ==
    \E u, t \in Threads :
        /\ call[u].seq = 1 /\ call[u].pc = "returned" /\ call[u].hit = "none"
        /\ call[u].health = "up" /\ call[u].ret = Str(<<"y">>)
        /\ call[t].seq = 2 /\ call[t].cache_query = call[u].cache_query
        /\ call[t].hit = "exact" /\ call[t].ret = Str(<<"y">>)

C8_FnErrorPropagates ==
    [][\A t \in Threads :
        LET c == call[t]
            d == call'[t]
        IN  /\ d.exc = "OperationFailure" =>
                  /\ d.pc = "raised" /\ d.fn_calls = 1 /\ d.n_write = 0
                  /\ d.ret = NoneV /\ d.result = NoneV
            /\ (d.pc = "raised" /\ d.fn_calls = 1) => d.exc = "OperationFailure"
            /\ (d.pc = "write" \/ d.n_write = 1) => d.result \in FnValues
            /\ (c # d /\ d.n_write = c.n_write) => store' = store]_vars

\* Witness of C8: fn raised after a lookup that found nothing.
C8_Witness ==
    \E t \in Threads :
        /\ call[t].pc = "raised" /\ call[t].exc = "OperationFailure"
        /\ call[t].health = "up" /\ call[t].n_write = 0
        /\ \A i \in ItemIds : store[i] = NoRecord

\* C9 as stated: the only error a call ends with is fn's own, and when every
\* request the call makes fails, it invokes fn once and ends as fn ends.
C9_OnlyFnErrorsVisible ==
    \A t \in Threads :
        LET c == call[t]
        IN  /\ c.pc = "raised" => c.exc = "OperationFailure"
            /\ (c.pc \in Ended /\ c.health \in {"none", "down"}) =>
                  /\ c.fn_calls = 1
                  /\ c.pc = "returned" => c.ret = c.result

\* C10: nothing coalesces calls.  Each miss issues its own cache.write, and an
\* accepted write puts the call's result under the query's identifier whatever
\* was stored there, leaving every other record alone: of two calls that both
\* missed, the record kept is the one written last.
C10_NoSingleFlight ==
    [][\A t \in Threads :
        LET c == call[t]
            d == call'[t]
            id == MakeCacheId(ns, c.cache_query)
        IN  /\ (c.pc = "write" /\ d.last = "write_ok") =>
                  /\ store'[id] # NoRecord
                  /\ store'[id].meta.response = c.result
                  /\ \A i \in ItemIds \ {id} : store'[i] = store[i]
            /\ (d.pc = "returned" /\ d.hit = "none") => d.n_write = 1]_vars

\* Witness of C10: two calls with one query both found the service up, both
\* missed, both invoked fn and both wrote; the record kept is the second's.
C10_Witness ==
    \E t, u \in Threads :
        /\ call[t].pc = "returned" /\ call[u].pc = "returned"
        /\ call[t].cache_query = call[u].cache_query
        /\ call[t].hit = "none" /\ call[u].hit = "none"
        /\ call[t].health = "up" /\ call[u].health = "up"
        /\ call[t].fn_calls = 1 /\ call[u].fn_calls = 1
        /\ call[t].ret = Str(<<"x">>) /\ call[u].ret = Str(<<"y">>)
        /\ store[MakeCacheId(ns, call[u].cache_query)].meta.response = Str(<<"y">>)

\* C11 as stated: once a record is stored under an identifier, no step
\* replaces its content or removes it.
C11_WriteOnce ==
    [][\A i \in ItemIds : store[i] # NoRecord => store'[i] = store[i]]_vars

\* C11 as amended: no step removes a stored record, and a step changes the
\* record under an identifier only as the accepted cache.write of a call
\* whose own query derives that identifier; the record then is that call's
\* write body (text = its query, meta.response = its result), whatever was
\* stored there before.
C11_OwnIdentifierOnly ==
    [][\A i \in ItemIds :
        /\ store[i] # NoRecord => store'[i] # NoRecord
        /\ store'[i] # store[i] =>
              \E t \in Threads :
                  /\ call[t].pc = "write" /\ call'[t].n_write = 1
                  /\ i = MakeCacheId(ns, call[t].cache_query)
                  /\ store'[i].item_id = i
                  /\ store'[i].text = call[t].cache_query
                  /\ store'[i].meta.response = call[t].result]_vars

\* Witness of C11: a second call, whose lookup failed, has replaced the
\* record the first call stored under the same identifier.
C11_Witness ==
    \E u, t \in Threads :
        /\ call[u].seq = 1 /\ call[u].pc = "returned" /\ call[u].last = "write_ok"
        /\ call[u].ret = Str(<<"x">>)
        /\ call[t].seq = 2 /\ call[t].pc = "returned" /\ call[t].lookup_failed
        /\ call[t].cache_query = call[u].cache_query
        /\ call[t].last = "write_ok" /\ call[t].ret = Str(<<"y">>)
        /\ store[MakeCacheId(ns, call[t].cache_query)].meta.response = Str(<<"y">>)

C13_ResolutionOrder ==
    \A t \in Threads :
        LET c == call[t]
            kf == deco.key_fn
            Usable(x) == x.t = "str" /\ Strip(x.v) # <<>>
            Named(n) == n \in DOMAIN c.kwargs /\ Usable(c.kwargs[n])
            name == IF Named("prompt") THEN "prompt"
                    ELSE IF Named("query") THEN "query"
                    ELSE "text"
            At(i) == Usable(c.args[i]) /\ \A j \in 1..(i - 1) : ~Usable(c.args[j])
        IN  c.pc = "lookup_exact" =>
              IF kf.given /\ ~kf.raises /\ Usable(kf.key)
                  THEN c.cache_query = kf.key.v /\ c.serialized_args = <<>>
              ELSE IF Named(name)
                  THEN c.cache_query = Strip(c.kwargs[name].v) /\ c.serialized_args = <<>>
              ELSE IF \E i \in 1..Len(c.args) : At(i)
                  THEN /\ \E i \in 1..Len(c.args) :
                            At(i) /\ c.cache_query = Strip(c.args[i].v)
                       /\ c.serialized_args = <<>>
              ELSE /\ c.cache_query = c.serialized_args
                   /\ c.cache_query \in { DumpSorted(c.args, c.kwargs).text,
                                          DumpPair(c.args, c.kwargs).text }

\* Witness of C13: the key function returned a blank str, prompt is blank,
\* and the query is the trimmed value of text although a positional str is
\* there too.
C13_Witness ==
    \E t \in Threads :
        /\ deco.key_fn.given /\ deco.key_fn.key = Str(<<" ">>)
        /\ call[t].pc = "lookup_exact"
        /\ call[t].args = <<Str(<<"b">>)>>
        /\ DOMAIN call[t].kwargs = {"prompt", "text"}
        /\ call[t].kwargs["prompt"] = Str(<<" ">>)
        /\ call[t].cache_query = <<"t">>

\* C14 as stated: the resolution of the query never ends a call with an
\* error, and the query it yields is never empty.
C14_ResolutionNeverFails ==
    \A t \in Threads :
        call[t].pc # "idle" => call[t].pc = "lookup_exact" /\ call[t].cache_query # <<>>

\* C15: the record an accepted cache.write of a call stores is the request's
\* body: ns is the decorator's namespace, item_id the identifier of the
\* call's exact lookup, text the query, meta holds response (fn's result),
\* query and cache_id; ttl_s is there exactly when ttl_seconds is not None and
\* is then ttl_seconds; meta holds serialized_args only when the
\* serialization was computed and differs from the stored query.
C15_WriteRequestShape ==
    [][\A t \in Threads :
        LET c == call[t]
            id == LookupId(c)
            b == store'[id]
        IN  (c.pc = "write" /\ call'[t] # c /\ store' # store) =>
              /\ b.ns = deco.ns
              /\ b.item_id = id
              /\ id = <<"dedup:", deco.ns, ":">> \o Sha1Hex(c.cache_query)
              /\ b.text = c.cache_query
              /\ DOMAIN b \subseteq {"ns", "item_id", "text", "meta", "ttl_s"}
              /\ {"response", "query", "cache_id"} \subseteq DOMAIN b.meta
              /\ DOMAIN b.meta \subseteq {"response", "query", "cache_id", "serialized_args"}
              /\ b.meta.response = c.result
              /\ b.meta.query = c.cache_query
              /\ b.meta.cache_id = id
              /\ ("ttl_s" \in DOMAIN b) <=> (deco.ttl_seconds # None)
              /\ deco.ttl_seconds # None => b.ttl_s = deco.ttl_seconds.x
              /\ "serialized_args" \in DOMAIN b.meta =>
                    /\ c.serialized_args # <<>>
                    /\ c.serialized_args # b.meta.query
                    /\ b.meta.serialized_args = c.serialized_args]_vars

\* Witness of C15: a decorator built with ttl_seconds=None; a call that fell
\* back to the serialization has stored a record, which carries no ttl_s.
C15_Witness ==
    \E t \in Threads :
        /\ deco.state = "built" /\ deco.ttl_seconds = None
        /\ call[t].pc = "returned" /\ call[t].last = "write_ok"
        /\ call[t].serialized_args # <<>>
        /\ store[LookupId(call[t])] # NoRecord
        /\ DOMAIN store[LookupId(call[t])] = {"ns", "item_id", "text", "meta"}
        /\ store[LookupId(call[t])].meta.response = call[t].ret

\* C16: whatever result list search.vector answers with, the call goes on
\* with one candidate only, the first of the list, which is the one of
\* lowest score: it is fetched when its score is accepted, and when it is
\* rejected the call is a miss (no other candidate's score is accepted
\* then); the fetch of the candidate ends the lookup, as a hit or, when the
\* record fetched carries no str response, as a miss, whatever other
\* candidates the list held and whatever records are stored.
C16_SingleBestCandidate ==
    \A t \in Threads :
        LET c == call[t]
        IN  /\ c.pc = "lookup_search" =>
                  \A resp \in SearchResponses :
                      LET rs == SearchVector(resp).results
                          d == ApproxPath(c, resp)
                      IN  (SearchVector(resp).exc = "none" /\ rs # <<>>) =>
                            /\ d.pc \in {"lookup_candidate", "miss"}
                            /\ d.pc = "lookup_candidate" =>
                                  /\ "item_id" \in DOMAIN rs[1]
                                  /\ d.best_id = rs[1].item_id
                                  /\ d.score = Rank(rs[1])
                                  /\ \A j \in 1..Len(rs) : d.score <= Rank(rs[j])
                            /\ d.last = "search_rejected" =>
                                  /\ d.pc = "miss"
                                  /\ \A j \in 1..Len(rs) : ~Accepts(Rank(rs[j]))
            /\ c.pc = "lookup_candidate" =>
                  /\ Accepts(c.score)
                  /\ \A resp \in GetResponses(store[c.best_id]) :
                        LET doc == FetchCacheRecord(resp)
                            d == CandidatePath(c, doc)
                        IN  /\ d.pc \in {"returned", "miss"}
                            /\ d.pc = "returned" <=> (doc.exc = "none" /\ IsStr(doc.val))
                            /\ d.pc = "returned" => d.best_id = c.best_id
            /\ c.others => c.pc \in {"lookup_candidate", "miss"}

\* Witness of C16: the list held more than one candidate, the first was
\* fetched and carries no str response, and the call is a miss although the
\* record of the other candidate carries one.
C16_Witness ==
    \E t \in Threads :
        /\ call[t].pc = "miss" /\ call[t].others /\ ~call[t].lookup_failed
        /\ call[t].last = "get_faithful"
        /\ HasStringResponse(store[MakeCacheId(ns, <<"a">>)])
        /\ call[t].cache_query # <<"a">>

\* C17 (calls that do not overlap): a call that ends in a hit has issued no
\* cache.write and has not invoked fn, and no step of a call that has not
\* written changes the service's records; after an approximate hit for a
\* query, with the service up, no record with a str response is stored under
\* the query's own identifier, and the next call with the same query, the
\* service still up, is no exact hit: it goes on to the approximate path.
C17_HitsDoNotWrite ==
    [][\A t \in Threads :
        LET c == call[t]
            d == call'[t]
        IN  /\ d.hit # "none" => d.pc = "returned" /\ d.n_write = 0 /\ d.fn_calls = 0
            /\ (c # d /\ d.n_write = 0) => store' = store
            /\ (d.hit = "approx" /\ d.health = "up" /\ d.seq = ncalls') =>
                  ~HasStringResponse(store'[LookupId(d)])
            /\ \A u \in Threads \ {t} :
                  LET f == call'[u]
                  IN  (f.hit = "approx" /\ f.health = "up" /\ d.seq = f.seq + 1
                       /\ d.cache_query = f.cache_query /\ d.health = "up") =>
                          /\ d.hit # "exact"
                          /\ d.pc # "lookup_exact"
                          /\ c.pc = "lookup_exact" => d.pc = "lookup_search"]_vars

\* Witness of C17: two successive calls with one query were both approximate
\* hits, and nothing is stored under the query's own identifier.
C17_Witness ==
    \E u, t \in Threads :
        /\ call[u].seq = 1 /\ call[u].hit = "approx" /\ call[u].health = "up"
        /\ call[t].seq = 2 /\ call[t].hit = "approx" /\ call[t].health = "up"
        /\ call[t].cache_query = call[u].cache_query
        /\ call[t].n_write = 0 /\ call[u].n_write = 0
        /\ store[LookupId(call[t])] = NoRecord

\* C18: a 404 to the exact cache.get sends the call on to the search; a
\* connection error, a timeout, a 5xx status, a body that is no JSON or no
\* JSON object ends the lookup: the call's next step is the invocation of
\* fn (no search.vector, no candidate fetch), and after fn has returned its
\* next step is the cache.write, which stores fn's result under the
\* identifier of the exact get, whatever records other identifiers hold.
C18_ExactGetFailureEndsLookup ==
    [][\A t \in Threads :
        LET c == call[t]
            d == call'[t]
            id == LookupId(c)
        IN  /\ c.pc = "lookup_exact" =>
                  \A resp \in GetResponses(store[id]) :
                      LET e == ExactPath(c, FetchCacheRecord(resp))
                      IN  /\ (resp.kind = "http" /\ resp.status = 404) =>
                                e.pc = "lookup_search" /\ ~e.lookup_failed
                          /\ (resp.kind # "http" \/ resp.status >= 500
                              \/ resp.body.json # "object") =>
                                e.pc = "miss" /\ e.lookup_failed /\ e.hit = "none"
            /\ (c.pc = "lookup_exact" /\ d # c) =>
                  /\ d.last = "get_failed" <=> d.pc = "miss"
                  /\ d.pc = "miss" => d.lookup_failed /\ d.health = "down"
            /\ (c.pc = "miss" /\ d # c) =>
                  /\ d.fn_calls = c.fn_calls + 1 /\ d.last = "fn"
                  /\ d.pc \in {"write", "raised"}
                  /\ d.health = c.health
            /\ (c.pc = "write" /\ d # c) =>
                  /\ d.pc = "returned" /\ d.n_write = 1 /\ d.ret = c.result
                  /\ store' # store =>
                        /\ store'[id].item_id = id
                        /\ store'[id].meta.response = c.result
                        /\ \A i \in ItemIds \ {id} : store'[i] = store[i]]_vars

\* Witness of C18: the exact get of a call failed while the record of
\* another query, with a str response, was stored; the call made no further
\* lookup request, invoked fn and has stored fn's result under its own
\* identifier.
C18_Witness ==
    \E t \in Threads :
        /\ call[t].pc = "returned" /\ call[t].lookup_failed /\ call[t].health = "down"
        /\ call[t].fn_calls = 1 /\ call[t].n_write = 1
        /\ call[t].cache_query # <<"a">>
        /\ HasStringResponse(store[MakeCacheId(ns, <<"a">>)])
        /\ store[LookupId(call[t])] # NoRecord
        /\ store[LookupId(call[t])].meta.response = call[t].ret

\* C19 (deduped_chat(prompt, history), one call at a time): the query of a
\* call is its prompt and its identifier is derived from the prompt alone,
\* so two calls with one prompt have one query and one identifier whatever
\* their histories; and when a call has missed, with the service up, and
\* returned a str, the next call with the same prompt, whatever its history,
\* is an exact hit that returns that str without invoking fn.
C19_KeyIgnoresOtherArguments ==
    \A u \in Threads :
        LET f == call[u]
        IN  f.pc # "idle" =>
              /\ f.pc # "raised" \/ f.fn_calls = 1
              /\ f.cache_query = Strip(f.args[1].v)
              /\ f.serialized_args = <<>>
              /\ LookupId(f) = MakeCacheId(ns, Strip(f.args[1].v))
              /\ \A t \in Threads \ {u} :
                    LET s == call[t]
                    IN  /\ (s.pc # "idle" /\ s.args[1] = f.args[1]) =>
                              s.cache_query = f.cache_query /\ LookupId(s) = LookupId(f)
                        /\ (f.pc = "returned" /\ f.hit = "none" /\ f.health = "up"
                            /\ IsStr(f.ret) /\ s.seq = f.seq + 1
                            /\ s.args[1] = f.args[1] /\ s.health = "up") =>
                              /\ s.pc = "returned" /\ s.hit = "exact"
                              /\ s.ret = f.ret /\ s.fn_calls = 0

\* Witness of C19: the second call had the first call's prompt and another
\* history, and was an exact hit on the first call's result.
C19_Witness ==
    \E u, t \in Threads :
        /\ call[u].seq = 1 /\ call[u].hit = "none" /\ call[u].ret = Str(<<"y">>)
        /\ call[t].seq = 2 /\ call[t].hit = "exact" /\ call[t].ret = Str(<<"y">>)
        /\ call[t].args[1] = call[u].args[1]
        /\ call[t].args[2] # call[u].args[2]
        /\ call[t].fn_calls = 0

\* C20 as stated (calls that do not overlap): every hit returns a str; a
\* miss whose fn returned a value that is no str still stores its record;
\* and the next call with the same query, the service up, is a miss again:
\* it invokes fn and issues a cache.write.
C20_NonStringAlwaysRecomputed ==
    \A u \in Threads :
        LET f == call[u]
        IN  /\ f.hit # "none" => IsStr(f.ret)
            /\ (f.pc = "returned" /\ f.hit = "none" /\ ~IsStr(f.ret)
                /\ f.last = "write_ok") =>
                  /\ f.seq = ncalls => store[LookupId(f)].meta.response = f.ret
                  /\ \A t \in Threads \ {u} :
                        LET s == call[t]
                        IN  (s.seq = f.seq + 1 /\ s.cache_query = f.cache_query
                             /\ s.pc = "returned" /\ s.health = "up") =>
                                s.hit = "none" /\ s.fn_calls = 1 /\ s.n_write = 1

\* C20 as amended (calls that do not overlap): every hit returns a str; a
\* miss whose fn returned a value that is no str still stores its record;
\* the next call with the same query, the service up, gets nothing from that
\* record: it is no exact hit, and it is either an approximate hit on the
\* record of another identifier, or a miss that invokes fn again and writes
\* the record again.
C20_NonStringNeverReturned ==
    \A u \in Threads :
        LET f == call[u]
        IN  /\ f.hit # "none" => IsStr(f.ret)
            /\ (f.pc = "returned" /\ f.hit = "none" /\ ~IsStr(f.ret)
                /\ f.last = "write_ok") =>
                  /\ f.seq = ncalls => store[LookupId(f)].meta.response = f.ret
                  /\ \A t \in Threads \ {u} :
                        LET s == call[t]
                        IN  (s.seq = f.seq + 1 /\ s.cache_query = f.cache_query
                             /\ s.health = "up") =>
                                /\ s.hit # "exact"
                                /\ s.pc # "lookup_exact"
                                /\ s.hit = "approx" => s.best_id # LookupId(s)
                                /\ (s.pc = "returned" /\ s.hit = "none") =>
                                      /\ s.fn_calls = 1 /\ s.n_write = 1
                                      /\ store[LookupId(s)].meta.response = s.ret

\* Witness of C20: fn returned a value that is no str in two successive
\* calls with one query; both missed, both wrote.
C20_Witness ==
    \E u, t \in Threads :
        /\ call[u].seq = 1 /\ call[u].pc = "returned" /\ call[u].hit = "none"
        /\ ~IsStr(call[u].ret) /\ call[u].last = "write_ok"
        /\ call[t].seq = 2 /\ call[t].cache_query = call[u].cache_query
        /\ call[t].pc = "returned" /\ call[t].health = "up" /\ call[t].hit = "none"
        /\ call[t].fn_calls = 1 /\ call[t].n_write = 1
        /\ store[LookupId(call[t])].meta.response = call[t].ret

====
